---- MODULE Spec2Model ----
(***************************************************************************)
(* Model of the indentation-tracking Formatter of cgen-rs                  *)
(* (src/src/formatter.rs).  Text is a sequence of one-character strings.   *)
(* The caller-supplied closures of indent, block and scope are modelled by *)
(* a call stack: entering a call pushes a frame, the closure then performs *)
(* any operations on the writer, and its return pops the frame.            *)
(***************************************************************************)
EXTENDS Integers, Sequences, FiniteSets, TLC

VARIABLES dst, spaces, scope, stack, last, nops, runStart, runFrags, unwinding

vars == <<dst, spaces, scope, stack, last, nops, runStart, runFrags, unwinding>>

(* ---------------------------- bounds ----------------------------------- *)
\* number of calls made on the writer in one behaviour
MaxOps == 3
\* nesting of indent / block / scope calls
MaxDepth == 2
\* number of calls in a behaviour that writes nested blocks only
MaxBlockOps == 5

(* ---------------------------- text ------------------------------------- *)
NL == "\n"
CR == "\r"
SP == " "

\* strings the callers write: empty, without a newline, pure newlines, ending
\* in a newline, multi-line with and without an empty line, with a carriage
\* return, and the texts of the documented scenarios
WriteStrs ==
    { <<>>, <<"a">>, <<"b">>, <<"x", ";">>,
      <<NL>>, <<"a", NL>>, <<NL, NL>>,
      <<"a", NL, "b">>, <<"a", NL, NL, "b">>,
      <<CR>>, <<"a", CR>>, <<CR, NL>>, <<"a", CR, NL, "b">> }

\* what the inner operations of nested blocks write: a statement head, a
\* statement line, a line end
BlockStrs == { <<"a">>, <<"x", ";", NL>>, <<NL>> }

\* scope segments and identifiers
Names == {<<"F", "o", "o">>, <<"B", "a", "r">>}
Idents == {<<"b", "a", "z">>, <<"a", NL, "a">>}

RECURSIVE Concat(_)
Concat(ss) == IF ss = <<>> THEN <<>> ELSE Head(ss) \o Concat(Tail(ss))

RECURSIVE Spaces(_)
Spaces(n) == IF n = 0 THEN <<>> ELSE <<SP>> \o Spaces(n - 1)

EndsWithNL(s) == s # <<>> /\ s[Len(s)] = NL

(* ---------------------------- formatter.rs ----------------------------- *)
\* const DEFAULT_INDENT
DEFAULT_INDENT == 4

\* str::lines(): the pieces of s ending at each "\n"; the "\n" and a "\r"
\* right before it are removed from the piece; a last piece without "\n"
\* is kept whole; there is no empty last piece.
FirstNL(s) ==
    IF \E i \in 1..Len(s) : s[i] = NL
    THEN CHOOSE i \in 1..Len(s) : s[i] = NL /\ \A j \in 1..(i - 1) : s[j] # NL
    ELSE 0

StripLineEnding(piece) ==
    IF EndsWithNL(piece)
    THEN LET p == SubSeq(piece, 1, Len(piece) - 1)
         IN  IF p # <<>> /\ p[Len(p)] = CR THEN SubSeq(p, 1, Len(p) - 1) ELSE p
    ELSE piece

RECURSIVE Lines(_)
Lines(s) ==
    IF s = <<>> THEN <<>>
    ELSE LET i == FirstNL(s)
         IN  IF i = 0 THEN <<s>>
             ELSE <<StripLineEnding(SubSeq(s, 1, i))>> \o Lines(SubSeq(s, i + 1, Len(s)))

\* Formatter::is_start_of_line
is_start_of_line_noempty(d) == d # <<>> /\ d[Len(d)] = NL
is_start_of_line(d) == d = <<>> \/ d[Len(d)] = NL

\* Formatter::push_spaces
push_spaces_short(d, n) == IF n = 0 THEN d ELSE d \o Spaces(n - 1)
push_spaces(d, n) == d \o Spaces(n)

\* the trailing newline of write_str
push_trailing_newline_never(d, s) == d
push_trailing_newline_over(d, s) ==
    IF s # <<>> /\ s[Len(s)] = NL
    THEN (IF d = <<>> THEN <<NL>> ELSE [d EXCEPT ![Len(d)] = NL])
    ELSE d
push_trailing_newline(d, s) == IF s # <<>> /\ s[Len(s)] = NL THEN Append(d, NL) ELSE d

\* the loop of write_str over the lines, with its locals first, should_indent
RECURSIVE write_lines(_, _, _, _, _)
write_lines(d, n, ls, first, should_indent) ==
    IF ls = <<>> THEN d
    ELSE LET line == Head(ls)
             d1 == IF ~first THEN Append(d, NL) ELSE d
             do_indent == should_indent /\ line # <<>> /\ line[1] # NL
             d2 == IF do_indent THEN push_spaces(d1, n) ELSE d1
         IN  write_lines(d2 \o line, n, Tail(ls), FALSE, TRUE)

\* <Formatter as fmt::Write>::write_str: the buffer after writing s at depth n
write_str(d, n, s) ==
    push_trailing_newline(write_lines(d, n, Lines(s), TRUE, is_start_of_line(d)), s)

\* Formatter::get_indent
get_indent(sp) == sp

\* Formatter::indent, before and after the call of f
indent_enter(sp) == sp + DEFAULT_INDENT
indent_leave_keep(sp) == sp
indent_leave(sp) == sp - DEFAULT_INDENT

\* Formatter::scope, before and after the call of f (Vec::push, Vec::pop)
scope_push(sc, name) == Append(sc, name)
scope_pop_front(sc) == IF sc = <<>> THEN sc ELSE Tail(sc)
scope_pop(sc) == IF sc = <<>> THEN sc ELSE SubSeq(sc, 1, Len(sc) - 1)

\* the loop of write_scoped_name: push_str(s); push_str("::") for each segment
RECURSIVE push_scope(_, _)
push_scope(d, sc) ==
    IF sc = <<>> THEN d ELSE push_scope(d \o Head(sc) \o <<":", ":">>, Tail(sc))

\* Formatter::write_scoped_name: the buffer after the call
write_scoped_name_nosep(d, n, sc, name) ==
    write_str(write_str(d, n, <<SP>>) \o Concat(sc), n, name)
write_scoped_name(d, n, sc, name) ==
    write_str(push_scope(write_str(d, n, <<SP>>), sc), n, name)

\* Formatter::block up to the call of indent: the separating space and "{\n"
block_open_nospace(d, n) == write_str(d, n, <<"{", NL>>)
block_open(d, n) ==
    LET d1 == IF ~is_start_of_line(d) THEN write_str(d, n, <<SP>>) ELSE d
    IN  write_str(d1, n, <<"{", NL>>)

\* Formatter::block after indent returned r: "?" returns a failure at once,
\* otherwise "}" is written
block_close_newline(d, n, r) ==
    IF r = "Err" THEN d ELSE write_str(d, n, <<NL, "}">>)
block_close_inside(d, n, r) ==
    IF r = "Err" THEN d ELSE write_str(d, n + DEFAULT_INDENT, <<"}">>)
block_close_always(d, n, r) == write_str(d, n, <<"}">>)
block_close(d, n, r) == IF r = "Err" THEN d ELSE write_str(d, n, <<"}">>)

block_result_ok(r) == "Ok"
block_result(r) == IF r = "Err" THEN "Err" ELSE "Ok"

\* Formatter::indent and Formatter::scope return ret, the result of f
call_result(r) == r

(* ---------------------------- state ------------------------------------ *)
\* last: the most recent call or return, with the writer's state before the
\* call (for a return or an unwind: before the call that is left); for a
\* return, flag tells that the inner operation returned a failure, and for the
\* return of block, arg is the buffer the inner operation left
Op(op, arg, d, sp, sc, ret, flag, val, body) ==
    [op |-> op, arg |-> arg, dst |-> d, spaces |-> sp, scope |-> sc,
     ret |-> ret, flag |-> flag, val |-> val, body |-> body]

Frame(kind, name) ==
    [kind |-> kind, name |-> name, dst |-> dst, spaces |-> spaces, scope |-> scope,
     body |-> <<>>]

\* body: the calls the closure of a frame has made on the writer so far, in
\* order (the two accessors, which change nothing, are not listed)
Note(st, op, arg) ==
    IF st = <<>> THEN st ELSE [st EXCEPT ![Len(st)].body = Append(@, <<op, arg>>)]

\* when a call returns, the closure that made it has its result and what the
\* inner operation of the call did
NoteReturn(st, res, inner) == Note(st, "returned", <<res, inner>>)

Calls == {"indent", "block", "scope"}
Nested(body) == \E i \in 1..Len(body) : body[i][1] \in Calls

Top == stack[Len(stack)]
Pop(st) == SubSeq(st, 1, Len(st) - 1)

\* Formatter::new over a buffer the caller owns, empty or not
InitBufs == {<<>>, <<"a">>}

Init ==
    /\ dst \in InitBufs
    /\ spaces = 0
    /\ scope = <<>>
    /\ stack = <<>>
    /\ last = Op("new", <<>>, dst, 0, <<>>, "None", FALSE, 0, <<>>)
    /\ nops = 0
    /\ runStart = dst
    /\ runFrags = <<>>
    /\ unwinding = FALSE

CanCall == ~unwinding /\ nops < MaxOps

\* the run of consecutive write_str calls starts afresh
ResetRun(d) == runStart' = d /\ runFrags' = <<>>

(* ---------------------------- operations ------------------------------- *)
\* write_str(s): only the buffer changes, and the result is Ok
WriteIndenting(s) ==
    /\ dst' = write_str(dst, spaces, s)
    /\ last' = Op("write_str", s, dst, spaces, scope, "Ok", FALSE, 0, <<>>)
    /\ stack' = Note(stack, "write_str", s)
    /\ nops' = nops + 1
    /\ runFrags' = Append(runFrags, s)
    /\ spaces' = IF is_start_of_line(dst) THEN spaces ELSE indent_enter(spaces)
    /\ UNCHANGED <<scope, runStart, unwinding>>

Write(s) ==
    /\ dst' = write_str(dst, spaces, s)
    /\ last' = Op("write_str", s, dst, spaces, scope, "Ok", FALSE, 0, <<>>)
    /\ stack' = Note(stack, "write_str", s)
    /\ nops' = nops + 1
    /\ runFrags' = Append(runFrags, s)
    /\ UNCHANGED <<spaces, scope, runStart, unwinding>>

WriteStr == \E s \in WriteStrs : CanCall /\ Write(s)

WriteScopedName ==
    \E name \in Idents :
        /\ CanCall
        /\ dst' = write_scoped_name(dst, spaces, scope, name)
        /\ last' = Op("write_scoped_name", name, dst, spaces, scope, "Ok", FALSE, 0, <<>>)
        /\ stack' = Note(stack, "write_scoped_name", name)
        /\ nops' = nops + 1
        /\ ResetRun(dst')
        /\ UNCHANGED <<spaces, scope, unwinding>>

IsStartOfLine ==
    /\ CanCall
    /\ nops' = nops + 1
    /\ last' = Op("is_start_of_line", <<>>, dst, spaces, scope, "None",
                  is_start_of_line(dst), 0, <<>>)
    /\ UNCHANGED <<dst, spaces, scope, stack, runStart, runFrags, unwinding>>

GetIndent ==
    /\ CanCall
    /\ nops' = nops + 1
    /\ last' = Op("get_indent", <<>>, dst, spaces, scope, "None", FALSE, get_indent(spaces), <<>>)
    /\ UNCHANGED <<dst, spaces, scope, stack, runStart, runFrags, unwinding>>

EnterIndent ==
    /\ CanCall
    /\ Len(stack) < MaxDepth
    /\ spaces' = indent_enter(spaces)
    /\ stack' = Append(Note(stack, "indent", <<>>), Frame("indent", <<>>))
    /\ last' = Op("enter_indent", <<>>, dst, spaces, scope, "None", FALSE, 0, <<>>)
    /\ nops' = nops + 1
    /\ ResetRun(dst)
    /\ UNCHANGED <<dst, scope, unwinding>>

EnterScope ==
    \E name \in Names :
        /\ CanCall
        /\ Len(stack) < MaxDepth
        /\ scope' = scope_push(scope, name)
        /\ stack' = Append(Note(stack, "scope", name), Frame("scope", name))
        /\ last' = Op("enter_scope", name, dst, spaces, scope, "None", FALSE, 0, <<>>)
        /\ nops' = nops + 1
        /\ ResetRun(dst)
        /\ UNCHANGED <<dst, spaces, unwinding>>

\* block up to the call of f
OpenBlock ==
    /\ Len(stack) < MaxDepth
    /\ dst' = block_open(dst, spaces)
    /\ spaces' = indent_enter(spaces)
    /\ stack' = Append(Note(stack, "block", <<>>), Frame("block", <<>>))
    /\ last' = Op("enter_block", <<>>, dst, spaces, scope, "None", FALSE, 0, <<>>)
    /\ nops' = nops + 1
    /\ ResetRun(dst')
    /\ UNCHANGED <<scope, unwinding>>

EnterBlock == CanCall /\ OpenBlock

\* the closure f of the innermost running call returns r
Return ==
    \E r \in {"Ok", "Err"} :
        /\ ~unwinding
        /\ stack # <<>>
        /\ \/ /\ Top.kind = "indent"
              /\ spaces' = indent_leave(spaces)
              /\ last' = Op("indent", <<>>, Top.dst, Top.spaces, Top.scope, call_result(r),
                            r = "Err", 0, Top.body)
              /\ UNCHANGED <<dst, scope>>
           \/ /\ Top.kind = "scope"
              /\ scope' = scope_pop(scope)
              /\ last' = Op("scope", Top.name, Top.dst, Top.spaces, Top.scope, call_result(r),
                            r = "Err", 0, Top.body)
              /\ UNCHANGED <<dst, spaces>>
           \/ /\ Top.kind = "block"
              /\ spaces' = indent_leave(spaces)
              /\ dst' = block_close(dst, spaces', r)
              /\ last' = Op("block", dst, Top.dst, Top.spaces, Top.scope, block_result(r),
                            r = "Err", 0, Top.body)
              /\ UNCHANGED scope
        /\ stack' = NoteReturn(Pop(stack), last'.ret, Top.body)
        /\ ResetRun(dst')
        /\ UNCHANGED <<nops, unwinding>>

\* a panic in the running closure unwinds through the innermost call: the
\* statements after "f(self)" in indent, scope and block do not run
Unwind ==
    /\ stack # <<>>
    /\ stack' = Pop(stack)
    /\ unwinding' = TRUE
    /\ last' = Op("unwind", <<Top.kind>>, Top.dst, Top.spaces, Top.scope, "None", FALSE, 0, Top.body)
    /\ ResetRun(dst)
    /\ UNCHANGED <<dst, spaces, scope, nops>>

\* the caller catches the panic (catch_unwind) and goes on using the writer
Catch ==
    /\ unwinding
    /\ unwinding' = FALSE
    /\ UNCHANGED <<dst, spaces, scope, stack, last, nops, runStart, runFrags>>

Next ==
    \/ WriteStr
    \/ WriteScopedName
    \/ IsStartOfLine
    \/ GetIndent
    \/ EnterIndent
    \/ EnterScope
    \/ EnterBlock
    \/ Return

Spec == Init /\ [][Next]_vars

NextUnwind ==
    \/ Next
    \/ Unwind
    \/ Catch

SpecUnwind == Init /\ [][NextUnwind]_vars

\* callers that write nested blocks and nothing else
CanCallInBlocks == ~unwinding /\ nops < MaxBlockOps

WriteInBlocks == \E s \in BlockStrs : CanCallInBlocks /\ Write(s)

NestBlock == CanCallInBlocks /\ OpenBlock

NextBlocks ==
    \/ WriteInBlocks
    \/ NestBlock
    \/ Return

SpecBlocks == Init /\ [][NextBlocks]_vars

TypeOK ==
    /\ spaces \in Nat
    /\ nops \in 0..MaxBlockOps
    /\ Len(stack) \in 0..MaxDepth
    /\ unwinding \in BOOLEAN

(* ---------------------------- properties ------------------------------- *)
\* text as the claims describe it: lines are what lies between "\n" characters
HasNL(s) == \E i \in 1..Len(s) : s[i] = NL

\* s, with n spaces put before every character that starts a non-empty line;
\* sol tells whether s begins at the start of a line
RECURSIVE Indented(_, _, _)
Indented(s, n, sol) ==
    IF s = <<>> THEN <<>>
    ELSE (IF sol /\ Head(s) # NL THEN Spaces(n) ELSE <<>>)
         \o <<Head(s)>> \o Indented(Tail(s), n, Head(s) = NL)

AtLineStart(d) == Len(d) = 0 \/ d[Len(d)] = NL

Foo == <<"F", "o", "o">>
Bar == <<"B", "a", "r">>
baz == <<"b", "a", "z">>

\* C1: a run of consecutive write_str calls on fragments leaves the buffer as
\* one write_str call on their concatenation would, from the same buffer and
\* at the same depth.
C1_FragmentsAsWhole ==
    Len(runFrags) >= 2 => dst = write_str(runStart, spaces, Concat(runFrags))

\* C2 (as stated): block on a fresh writer around the single write "x;" leaves
\* "{\n    x;\n}" in the buffer.
IsBlockOfX ==
    /\ last.op = "block"
    /\ last.dst = <<>>
    /\ last.spaces = 0
    /\ last.ret = "Ok"
    /\ last.body = << <<"write_str", <<"x", ";">>>> >>

C2_BlockWithNewline ==
    IsBlockOfX => dst = <<"{", NL, SP, SP, SP, SP, "x", ";", NL, "}">>

\* C2 (amended): block on a fresh writer around the single write "x;" leaves
\* "{\n    x;}" in the buffer: no newline is put before the closing brace.
C2_BlockOfX ==
    IsBlockOfX => dst = <<"{", NL, SP, SP, SP, SP, "x", ";", "}">>

C2_Witness == IsBlockOfX /\ stack = <<>>

\* C3: when an indent or block call returns, with a success or a failure of its
\* inner operation and whatever calls were nested in it, get_indent is what it
\* was before the call.
C3_DepthRestored ==
    last.op \in {"indent", "block"} => get_indent(spaces) = last.spaces

C3_Witness ==
    /\ last.op = "indent"
    /\ last.ret = "Err"
    /\ stack = <<>>
    /\ \E i \in 1..Len(last.body) : last.body[i][1] \in {"indent", "block"}
    /\ \E i \in 1..Len(last.body) : last.body[i][1] = "write_str"
    /\ get_indent(spaces) = last.spaces

\* C4: when a panic of the inner operation unwinds out of an indent or scope
\* call, depth and scope stack are what they were before the call.
C4_RestoredAfterUnwind ==
    (last.op = "unwind" /\ last.arg \in {<<"indent">>, <<"scope">>})
        => spaces = last.spaces /\ scope = last.scope

\* C5: when a scope call returns, with a success or a failure, the scope stack
\* is what it was before the call; while inner operations run, the stack lists
\* the segments of the running scope calls from outermost to innermost.
RECURSIVE RunningSegments(_)
RunningSegments(st) ==
    IF st = <<>> THEN <<>>
    ELSE (IF Head(st).kind = "scope" THEN <<Head(st).name>> ELSE <<>>)
         \o RunningSegments(Tail(st))

C5_ScopeRestored ==
    /\ last.op = "scope" => scope = last.scope
    /\ scope = RunningSegments(stack)

C5_Witness ==
    /\ last.op = "scope"
    /\ last.ret = "Err"
    /\ stack = <<>>
    /\ \E i \in 1..Len(last.body) :
           last.body[i][1] = "scope" /\ last.body[i][2] # last.arg
    /\ scope = last.scope

\* the segments, each followed by "::"
RECURSIVE Qualifier(_)
Qualifier(sc) ==
    IF sc = <<>> THEN <<>> ELSE Head(sc) \o <<":", ":">> \o Qualifier(Tail(sc))

IsFooBarBaz ==
    /\ last.op = "write_scoped_name"
    /\ last.dst = <<>>
    /\ last.spaces = 0
    /\ last.scope = <<Foo, Bar>>
    /\ last.arg = baz

FooBarBaz ==
    <<SP, "F", "o", "o", ":", ":", "B", "a", "r", ":", ":", "b", "a", "z">>

\* C6 (as stated): write_scoped_name of an identifier (a name without a
\* newline) appends one space, the segments each followed by "::", then the
\* name, and leaves the scope stack alone.
C6_SpaceQualifierName ==
    (last.op = "write_scoped_name" /\ ~HasNL(last.arg))
        => /\ dst = last.dst \o <<SP>> \o Qualifier(last.scope) \o last.arg
           /\ scope = last.scope

\* C6 (amended): write_scoped_name of an identifier appends the
\* indentation of the current depth if the buffer is at start-of-line, then
\* one space, the segments each followed by "::", then the name; in scope Foo,
\* Bar on a fresh writer the buffer is " Foo::Bar::baz"; the scope stack is
\* left alone.
C6_IndentSpaceQualifierName ==
    /\ (last.op = "write_scoped_name" /\ ~HasNL(last.arg))
           => dst = last.dst
                    \o (IF AtLineStart(last.dst) THEN Spaces(last.spaces) ELSE <<>>)
                    \o <<SP>> \o Qualifier(last.scope) \o last.arg
    /\ last.op = "write_scoped_name" => scope = last.scope
    /\ IsFooBarBaz => dst = FooBarBaz

C6_Witness == IsFooBarBaz /\ dst = FooBarBaz /\ scope = <<Foo, Bar>>

\* C7 (as stated): a string without a newline written at start-of-line appends
\* depth spaces and the string.
C7_SpacesThenText ==
    (last.op = "write_str" /\ ~HasNL(last.arg) /\ AtLineStart(last.dst))
        => dst = last.dst \o Spaces(last.spaces) \o last.arg

\* C7 (amended): a non-empty string without a newline written at start-of-line
\* appends depth spaces and the string; the empty string appends nothing.
C7_SpacesThenNonEmptyText ==
    (last.op = "write_str" /\ ~HasNL(last.arg) /\ AtLineStart(last.dst))
        => dst = IF last.arg = <<>> THEN last.dst
                 ELSE last.dst \o Spaces(last.spaces) \o last.arg

C7_Witness ==
    /\ last.op = "write_str"
    /\ last.arg = <<"a", CR>>
    /\ last.spaces = 2 * DEFAULT_INDENT
    /\ last.dst = <<>>
    /\ Len(dst) = 2 * DEFAULT_INDENT + 2

\* C8: one write_str call at depth d appends the text with d spaces before
\* each non-empty line that starts at a line start, none for an empty line,
\* and the line texts and newlines verbatim.
C8_LinesIndentedVerbatim ==
    (last.op = "write_str" /\ HasNL(last.arg))
        => dst = last.dst \o Indented(last.arg, last.spaces, AtLineStart(last.dst))

\* C9: "a\n" and then "b" keep the newline between them: from an empty buffer
\* at depth 0 the buffer is "a\nb"; at depth d, "b" gets d spaces; "b" written
\* after text that does not end in a newline gets none.
C9_TrailingNewlineKept ==
    /\ runFrags = << <<"a", NL>>, <<"b">> >>
           => dst = runStart
                    \o (IF AtLineStart(runStart) THEN Spaces(spaces) ELSE <<>>)
                    \o <<"a", NL>> \o Spaces(spaces) \o <<"b">>
    /\ (runFrags = << <<"a", NL>>, <<"b">> >> /\ runStart = <<>> /\ spaces = 0)
           => dst = <<"a", NL, "b">>
    /\ (last.op = "write_str" /\ last.arg = <<"b">> /\ ~AtLineStart(last.dst))
           => dst = last.dst \o <<"b">>

C9_Witness ==
    /\ runFrags = << <<"a", NL>>, <<"b">> >>
    /\ runStart = <<>>
    /\ spaces = DEFAULT_INDENT
    /\ dst = <<SP, SP, SP, SP, "a", NL, SP, SP, SP, SP, "b">>

\* C10: is_start_of_line returns true for the empty buffer and for a buffer
\* whose last character is a newline, false for any other buffer, and changes
\* neither buffer, depth nor scope stack.
C10_StartOfLine ==
    last.op = "is_start_of_line"
        => /\ dst = <<>> => last.flag
           /\ (dst # <<>> /\ dst[Len(dst)] = NL) => last.flag
           /\ (dst # <<>> /\ dst[Len(dst)] # NL) => ~last.flag
           /\ dst = last.dst /\ spaces = last.spaces /\ scope = last.scope

C10_Witness ==
    /\ last.op = "is_start_of_line"
    /\ last.flag
    /\ dst = <<>>
    /\ nops > 0

\* C11: write_str returns success and leaves depth and scope stack as they
\* were, for every string and writer state.
C11_WriteFrame ==
    last.op = "write_str"
        => last.ret = "Ok" /\ spaces = last.spaces /\ scope = last.scope

C11_Witness ==
    /\ last.op = "write_str"
    /\ last.arg = <<"a", NL, "b">>
    /\ last.spaces = DEFAULT_INDENT
    /\ last.scope = <<Foo>>
    /\ dst # last.dst
    /\ spaces = DEFAULT_INDENT
    /\ scope = <<Foo>>

\* C12: a failure of the inner operation of block, indent or scope is the
\* result of the call, at every nesting depth, and on return depth and scope
\* stack are what they were before the call.
C12_FailurePropagated ==
    (last.op \in Calls /\ last.flag)
        => last.ret = "Err" /\ spaces = last.spaces /\ scope = last.scope

\* the outermost block returns the failure its inner operation got from a
\* nested call
C12_Witness ==
    /\ last.op = "block"
    /\ stack = <<>>
    /\ last.flag
    /\ last.ret = "Err"
    /\ \E i \in 1..Len(last.body) :
           last.body[i][1] = "returned" /\ last.body[i][2][1] = "Err"
    /\ spaces = 0

\* C13: block puts exactly one space before "{" when the buffer is not at
\* start-of-line ("a" then block gives "a {\n"), and no separating space, only
\* the indentation of the current depth, when it is.
C13_SpaceBeforeBrace ==
    last.op = "enter_block"
        => dst = last.dst
                 \o (IF AtLineStart(last.dst) THEN Spaces(last.spaces) ELSE <<SP>>)
                 \o <<"{", NL>>

C13_Witness ==
    /\ last.op = "enter_block"
    /\ last.dst = <<"a">>
    /\ dst = <<"a", SP, "{", NL>>

\* the indent and block calls whose inner operation is running
RECURSIVE RunningIndents(_)
RunningIndents(st) ==
    IF st = <<>> THEN 0
    ELSE (IF Head(st).kind \in {"indent", "block"} THEN 1 ELSE 0)
         + RunningIndents(Tail(st))

\* C14: wherever the program can use the writer, get_indent is 4 times the
\* number of indent and block calls whose inner operation is running (0
\* outside any), and a write at start-of-line is prefixed with that many
\* spaces.
C14_DepthIsNesting ==
    ~unwinding
        => /\ get_indent(spaces) = DEFAULT_INDENT * RunningIndents(stack)
           /\ (last.op = "write_str" /\ AtLineStart(last.dst) /\ last.arg = <<"a">>)
                  => dst = last.dst \o Spaces(DEFAULT_INDENT * RunningIndents(stack))
                           \o <<"a">>

IsPrefix(p, s) == Len(p) <= Len(s) /\ SubSeq(s, 1, Len(p)) = p

\* C15: every operation only appends: the buffer before a step is a prefix of
\* the buffer after it, the buffer before a call is a prefix of the buffer
\* when the call returns, and so the content the writer was constructed over
\* stays in place.
C15_AppendOnly ==
    /\ [][IsPrefix(dst, dst')]_vars
    /\ [](IsPrefix(last.dst, dst))

C15_Witness ==
    /\ last.op = "block"
    /\ last.dst = <<"a">>
    /\ stack = <<>>
    /\ \E i \in 1..Len(last.body) : last.body[i][1] = "write_scoped_name"
    /\ IsPrefix(<<"a", SP, "{", NL>>, dst)
    /\ Len(dst) > 10

\* block { write "a"; block { write "x;\n" }; write "\n" } on a fresh writer
IsNestedBlocks ==
    /\ last.op = "block"
    /\ stack = <<>>
    /\ last.dst = <<>>
    /\ ~last.flag
    /\ Len(last.body) = 4
    /\ last.body[1] = <<"write_str", <<"a">>>>
    /\ last.body[2] = <<"block", <<>>>>
    /\ last.body[3][1] = "returned"
    /\ last.body[3][2][1] = "Ok"
    /\ last.body[3][2][2] = << <<"write_str", <<"x", ";", NL>>>> >>
    /\ last.body[4] = <<"write_str", <<NL>>>>

NestedBlocksText ==
    <<"{", NL>>
    \o Spaces(4) \o <<"a", SP, "{", NL>>
    \o Spaces(8) \o <<"x", ";", NL>>
    \o Spaces(4) \o <<"}", NL>>
    \o <<"}">>

\* C16: when the inner operation of a block entered at depth d leaves the
\* buffer at a line start, the closing brace is put on its own line after
\* exactly d spaces; a non-empty line the inner operation starts gets d + 4
\* spaces; the nested example gives "{\n    a {\n        x;\n    }\n}".
C16_NestedBlocks ==
    /\ (last.op = "block" /\ ~last.flag /\ AtLineStart(last.arg))
           => dst = last.arg \o Spaces(last.spaces) \o <<"}">>
    /\ (/\ last.op = "write_str"
        /\ stack # <<>>
        /\ Top.kind = "block"
        /\ AtLineStart(last.dst)
        /\ Lines(last.arg) # <<>>
        /\ Head(Lines(last.arg)) # <<>>)
           => IsPrefix(last.dst \o Spaces(Top.spaces + DEFAULT_INDENT)
                       \o Head(Lines(last.arg)), dst)
    /\ IsNestedBlocks => dst = NestedBlocksText

C16_Witness == IsNestedBlocks /\ dst = NestedBlocksText

\* the text block writes before it calls f, as C13 gives it
Opened(d, n) ==
    d \o (IF AtLineStart(d) THEN Spaces(n) ELSE <<SP>>) \o <<"{", NL>>

\* C17: when the inner operation of block returns a failure, block returns
\* without writing "}": the buffer is what the inner operation left, which
\* begins with the text before the call and the opening "{\n".
C17_NoBraceOnFailure ==
    (last.op = "block" /\ last.flag)
        => /\ dst = last.arg
           /\ IsPrefix(Opened(last.dst, last.spaces), dst)

\* an outer block passes on the failure of a nested block: no "}" at all
C17_Witness ==
    /\ last.op = "block"
    /\ last.flag
    /\ stack = <<>>
    /\ last.dst = <<>>
    /\ \E i \in 1..Len(last.body) :
           /\ last.body[i][1] = "returned"
           /\ last.body[i][2][1] = "Err"
           /\ last.body[i][2][2] # <<>>
    /\ Len(dst) > 4
    /\ \A i \in 1..Len(dst) : dst[i] # "}"

====
